---- MODULE Spec2Model ----
(***************************************************************************)
(* Model of the EquilateralAgents GitHub Action (src/index.js run() and    *)
(* its helpers, agents.js registerGitHubAgents).                           *)
(*                                                                         *)
(* One behaviour is one invocation of run().  The steps are the blocks of  *)
(* run() between its awaits.  The orchestrator, the task executor and the  *)
(* octokit transport are external: each awaited call either resolves or    *)
(* rejects, and the executor returns any outcome sequence index-aligned to *)
(* the resolved task list.                                                 *)
(*                                                                         *)
(* Data abstractions:                                                      *)
(*  - an issue is [severity, message]; message is the pair                 *)
(*    <<task index, position>> so that every issue is distinguishable;     *)
(*    file/line/title only feed text formatting and are left out;          *)
(*  - result.summary "" stands for a missing or empty summary (both falsy  *)
(*    at index.js:156), result.issues <<>> for missing or empty issues     *)
(*    (index.js:172 skips the first, pushes nothing for the second);       *)
(*  - strings built by template literals are kept as records of their      *)
(*    holes: the summary is [count, lines], a failure message is           *)
(*    [kind, n, msg], the comment body is [summary, total, sections];      *)
(*  - the AI footer of the comment (index.js:227) is left out.             *)
(***************************************************************************)
EXTENDS Integers, Sequences, FiniteSets, TLC

\* Bound on the total number of issues the executor returns in one run.
MaxIssues == 2

\* Severities an executor may report; "high" is a severity outside the
\* documented enum {critical, warning, info}.
Severities == {"critical", "warning", "info", "high"}

\* Values of the workflow-type input explored: the four built-in keys, an
\* unknown key, and a key that names a property every object literal inherits.
WorkflowTypes ==
    {"code-review", "full-analysis", "pre-deploy", "security-scan",
     "unknown-type", "constructor"}

BuiltinKeys == {"code-review", "full-analysis", "pre-deploy", "security-scan"}

\* Property names an object literal inherits from Object.prototype.
InheritedKeys == {"constructor"}

VARIABLES
    inputs,       \* the action inputs and context read at index.js:20-30
    pc,           \* position of run()
    started,      \* orchestrator.start() resolved
    workflowDef,  \* what getWorkflowDefinition(workflowType) returned
    result,       \* what executeWorkflow resolved with
    summary,      \* generateSummary(result)
    issues,       \* extractIssues(result)
    processed,    \* lines 80-89 completed
    annotations,  \* the core.error / core.warning calls made, in order
    comment,      \* the createComment call: status and body
    check,        \* the checks.create call: status and payload
    signals,      \* the core.setFailed calls made, in order
    stopCalled,   \* orchestrator.stop() was called
    thrownAt      \* the step whose exception reached the catch block

vars == <<inputs, pc, started, workflowDef, result, summary, issues, processed,
          annotations, comment, check, signals, stopCalled, thrownAt>>

----------------------------------------------------------------------------
\* agents.js: the workflow table

Task(a, t) == [agentId |-> a, taskType |-> t]

Workflows(w) ==
    CASE w = "code-review" ->
           << Task("github-code-analyzer", "analyze"),
              Task("github-security-scanner", "scan") >>
      [] w = "full-analysis" ->
           << Task("github-code-analyzer", "analyze"),
              Task("github-security-scanner", "scan"),
              Task("github-test-runner", "test") >>
      [] w = "pre-deploy" ->
           << Task("github-test-runner", "test"),
              Task("github-security-scanner", "scan"),
              Task("github-deployment-validator", "validate") >>
      [] w = "security-scan" ->
           << Task("github-security-scanner", "security_scan") >>

\* workflows[workflowType] || { tasks: [] }.  The lookup is a property read
\* on an object literal: an own key gives its definition, an inherited name
\* gives the inherited member (truthy, with no tasks property), anything
\* else is undefined and falls through to the default.
getWorkflowDefinition(w) ==
    IF w \in BuiltinKeys THEN [hasTasks |-> TRUE, tasks |-> Workflows(w)]
    ELSE IF w \in InheritedKeys THEN [hasTasks |-> FALSE, tasks |-> << >>]
    ELSE [hasTasks |-> TRUE, tasks |-> << >>]

----------------------------------------------------------------------------
\* The external task executor: every outcome sequence it may resolve with

\* Sequences of at most n severities.
SevSeqs(n) == UNION { [1..k -> Severities] : k \in 0..n }

\* The issues of task t with the given severities.
MkIssues(t, sevs) ==
    [k \in 1..Len(sevs) |-> [severity |-> sevs[k], message |-> <<t, k>>]]

\* A task that failed: the entry carries no result payload.
FailedOutcome(agent) ==
    [agentId |-> agent, hasResult |-> FALSE,
     result |-> [summary |-> "", issues |-> << >>]]

SuccessOutcome(agent, s, iss) ==
    [agentId |-> agent, hasResult |-> TRUE,
     result |-> [summary |-> s, issues |-> iss]]

\* The outcomes task t may have when it may report at most budget issues.
Outcomes(t, agent, budget) ==
    {FailedOutcome(agent)} \cup
    { SuccessOutcome(agent, s, MkIssues(t, sevs)) :
        s \in {"", "ok"}, sevs \in SevSeqs(budget) }

RECURSIVE TotalIssues(_)
TotalIssues(outs) ==
    IF outs = << >> THEN 0
    ELSE Len(outs[Len(outs)].result.issues) + TotalIssues(SubSeq(outs, 1, Len(outs) - 1))

\* Outcome sequences for the first n tasks, index-aligned with the tasks.
RECURSIVE OutcomeSeqs(_, _)
OutcomeSeqs(tasks, n) ==
    IF n = 0 THEN { << >> }
    ELSE UNION { { Append(outs, o) :
                     o \in Outcomes(n, tasks[n].agentId, MaxIssues - TotalIssues(outs)) } :
                 outs \in OutcomeSeqs(tasks, n - 1) }

----------------------------------------------------------------------------
\* index.js: result processing

\* task.result.summary / task.result.issues on an entry without a result
\* payload is a property read on undefined: a TypeError.
ProcessingThrows(results) == \E i \in 1..Len(results) : ~results[i].hasResult

RECURSIVE SummaryLines(_)
SummaryLines(tasks) ==
    IF tasks = << >> THEN << >>
    ELSE LET task == tasks[Len(tasks)]
             rest == SummaryLines(SubSeq(tasks, 1, Len(tasks) - 1))
         IN IF task.result.summary # ""
            THEN Append(rest, <<task.agentId, task.result.summary>>)
            ELSE rest

\* `Analyzed ${tasks.length} workflow tasks\n` followed by one
\* `\n${agentId}: ${summary}` per task with a summary.
generateSummary(results) ==
    [count |-> Len(results), lines |-> SummaryLines(results)]

\* extractIssues with the task contributions put in front of the list
\* instead of behind it.
RECURSIVE extractIssuesFront(_)
extractIssuesFront(tasks) ==
    IF tasks = << >> THEN << >>
    ELSE tasks[Len(tasks)].result.issues
           \o extractIssuesFront(SubSeq(tasks, 1, Len(tasks) - 1))

RECURSIVE extractIssues(_)
extractIssues(tasks) ==
    IF tasks = << >> THEN << >>
    ELSE extractIssues(SubSeq(tasks, 1, Len(tasks) - 1))
           \o tasks[Len(tasks)].result.issues

IsCritical(i) == i.severity = "critical"

\* issues.filter(i => i.severity === 'critical') in run()
criticalIssues(iss) == SelectSeq(iss, IsCritical)

----------------------------------------------------------------------------
\* index.js: the three renderers

\* AnnotationLevel testing for a severity name the executor does not use
\* for critical findings.
AnnotationLevelError(issue) == IF issue.severity = "error" THEN "error" ELSE "warning"

\* const level = issue.severity === 'critical' ? 'error' : 'warning'
AnnotationLevel(issue) == IF issue.severity = "critical" THEN "error" ELSE "warning"

Annotation(issue) ==
    LET level == AnnotationLevel(issue)
    IN [annotation_level |-> IF level = "error" THEN "failure" ELSE "warning",
        message |-> issue.message,
        command |-> level]

\* issues.forEach(...): one core.error / core.warning call per issue
Annotations(iss) == [k \in 1..Len(iss) |-> Annotation(iss[k])]

IsWarning(i) == i.severity = "warning"
IsInfo(i) == i.severity = "info"

\* The bullet lines of one section: one per issue, in order.
Bullets(iss) == [k \in 1..Len(iss) |-> iss[k].message]

CommentCritical(iss) == SelectSeq(iss, IsCritical)
CommentWarnings(iss) == SelectSeq(iss, IsWarning)
CommentInfo(iss) == SelectSeq(iss, IsInfo)

\* The comment body.  total is the n of "Issues Found (n)"; a section is
\* written only when its group is non-empty, so an empty sequence stands
\* for an absent section; noIssues is the "No issues found!" line.
CommentBody(sum, iss) ==
    [summary |-> sum,
     total |-> Len(iss),
     noIssues |-> Len(iss) = 0,
     critical |-> IF Len(iss) > 0 THEN Bullets(CommentCritical(iss)) ELSE << >>,
     warnings |-> IF Len(iss) > 0 THEN Bullets(CommentWarnings(iss)) ELSE << >>,
     info |-> IF Len(iss) > 0 THEN Bullets(CommentInfo(iss)) ELSE << >>]

\* criticalCount taken over all issues rather than the critical ones.
criticalCountAll(iss) == Len(iss)

criticalCount(iss) == Len(SelectSeq(iss, IsCritical))

CheckRunPayload(sum, iss) ==
    LET n == criticalCount(iss)
    IN [conclusion |-> IF n > 0 THEN "failure" ELSE "success",
        title |-> IF n > 0 THEN [text |-> "Found critical issues", n |-> n]
                  ELSE [text |-> "All checks passed", n |-> 0],
        summary |-> sum]

----------------------------------------------------------------------------
\* index.js: failure signalling

\* core.setFailed(`Found ${criticalIssues.length} critical issues`)
FoundCritical(n) == [kind |-> "critical", n |-> n, msg |-> ""]

\* core.setFailed(`Action failed: ${error.message}`); the error of a step is
\* named after the step.
ActionFailed(e) == [kind |-> "action", n |-> 0, msg |-> e]

\* if (failOnErrors && criticalIssues.length > 0) core.setFailed(...)
FailOnErrors(sigs, failOnErrors, iss) ==
    IF failOnErrors /\ Len(criticalIssues(iss)) > 0
    THEN Append(sigs, FoundCritical(Len(criticalIssues(iss))))
    ELSE sigs

\* TryPc with the exception swallowed: control goes on after a throw.
TryPcContinue(threw, next) == next

\* The try block: an exception leaves it for the catch block, after which
\* run() returns; otherwise control goes on to the next statement.
TryPc(threw, next) == IF threw THEN "done" ELSE next

\* CatchBlock that logs the error without signalling failure.
CatchBlockSilent(sigs, threw, e) == sigs

\* catch (error) { core.setFailed(`Action failed: ${error.message}`) }
CatchBlock(sigs, threw, e) == IF threw THEN Append(sigs, ActionFailed(e)) ELSE sigs

ThrownAt(old, threw, step) == IF threw THEN step ELSE old

----------------------------------------------------------------------------
\* run()

EmptySummary == [count |-> 0, lines |-> << >>]

Unresolved == [resolved |-> FALSE, hasTasks |-> FALSE, tasks |-> << >>]

Resolve(w) ==
    LET def == getWorkflowDefinition(w)
    IN [resolved |-> TRUE, hasTasks |-> def.hasTasks, tasks |-> def.tasks]

\* core.getInput(...) and github.context: any configuration.
Init ==
    /\ inputs \in [workflowType : WorkflowTypes,
                   createPRComment : BOOLEAN,
                   createCheckRun : BOOLEAN,
                   failOnErrors : BOOLEAN,
                   pull_request : BOOLEAN]
    /\ pc = "start"
    /\ started = FALSE
    /\ workflowDef = Unresolved
    /\ result = [returned |-> FALSE, results |-> << >>]
    /\ summary = EmptySummary
    /\ issues = << >>
    /\ processed = FALSE
    /\ annotations = << >>
    /\ comment = [status |-> "none", body |-> CommentBody(EmptySummary, << >>)]
    /\ check = [status |-> "none", payload |-> CheckRunPayload(EmptySummary, << >>)]
    /\ signals = << >>
    /\ stopCalled = FALSE
    /\ thrownAt = "none"

\* await orchestrator.start()
Start ==
    /\ pc = "start"
    /\ \E threw \in BOOLEAN :
         /\ started' = ~threw
         /\ pc' = TryPc(threw, "register")
         /\ signals' = CatchBlock(signals, threw, "start")
         /\ thrownAt' = ThrownAt(thrownAt, threw, "start")
    /\ UNCHANGED <<inputs, workflowDef, result, summary, issues, processed,
                   annotations, comment, check, stopCalled>>

\* require('./agents'); registerGitHubAgents(orchestrator, ...)
Register ==
    /\ pc = "register"
    /\ \E threw \in BOOLEAN :
         /\ pc' = TryPc(threw, "execute")
         /\ signals' = CatchBlock(signals, threw, "register")
         /\ thrownAt' = ThrownAt(thrownAt, threw, "register")
    /\ UNCHANGED <<inputs, started, workflowDef, result, summary, issues,
                   processed, annotations, comment, check, stopCalled>>

\* const result = await orchestrator.executeWorkflow(workflowType).  The
\* executor resolves the workflow type through getWorkflowDefinition and
\* either resolves with one outcome per task or rejects; a definition
\* without a task list cannot be run, so the call rejects.
ExecuteWorkflow ==
    /\ pc = "execute"
    /\ workflowDef' = Resolve(inputs.workflowType)
    /\ \/ /\ workflowDef'.hasTasks
          /\ \E outs \in OutcomeSeqs(workflowDef'.tasks, Len(workflowDef'.tasks)) :
               result' = [returned |-> TRUE, results |-> outs]
          /\ pc' = TryPc(FALSE, "process")
          /\ UNCHANGED <<signals, thrownAt>>
       \/ /\ pc' = TryPc(TRUE, "process")
          /\ signals' = CatchBlock(signals, TRUE, "execute")
          /\ thrownAt' = ThrownAt(thrownAt, TRUE, "execute")
          /\ UNCHANGED result
    /\ UNCHANGED <<inputs, started, summary, issues, processed, annotations,
                   comment, check, stopCalled>>

\* Lines 80-108: generateSummary, extractIssues, the outputs and the
\* annotations, all synchronous.  generateSummary throws on the first entry
\* without a result payload, before anything is rendered.
ProcessResults ==
    /\ pc = "process"
    /\ LET threw == ProcessingThrows(result.results)
       IN /\ pc' = TryPc(threw, "comment")
          /\ signals' = CatchBlock(signals, threw, "process")
          /\ thrownAt' = ThrownAt(thrownAt, threw, "process")
          /\ processed' = ~threw
          /\ IF threw
             THEN UNCHANGED <<summary, issues, annotations>>
             ELSE /\ summary' = generateSummary(result.results)
                  /\ issues' = extractIssues(result.results)
                  /\ annotations' = Annotations(issues')
    /\ UNCHANGED <<inputs, started, workflowDef, result, comment, check, stopCalled>>

\* if (createPRComment && context.payload.pull_request)
CommentEnabled == inputs.createPRComment /\ inputs.pull_request

\* Lines 110-120: render the comment and await octokit createComment.
CreatePRComment ==
    /\ pc = "comment"
    /\ IF CommentEnabled
       THEN \E threw \in BOOLEAN :
              /\ comment' = [status |-> IF threw THEN "failed" ELSE "published",
                             body |-> CommentBody(summary, issues)]
              /\ pc' = TryPc(threw, "check")
              /\ signals' = CatchBlock(signals, threw, "comment")
              /\ thrownAt' = ThrownAt(thrownAt, threw, "comment")
       ELSE /\ pc' = TryPc(FALSE, "check")
            /\ UNCHANGED <<comment, signals, thrownAt>>
    /\ UNCHANGED <<inputs, started, workflowDef, result, summary, issues,
                   processed, annotations, check, stopCalled>>

\* Lines 122-132: render the check run and await octokit checks.create.
CreateCheckRun ==
    /\ pc = "check"
    /\ IF inputs.createCheckRun
       THEN \E threw \in BOOLEAN :
              /\ check' = [status |-> IF threw THEN "failed" ELSE "published",
                           payload |-> CheckRunPayload(summary, issues)]
              /\ pc' = TryPc(threw, "fail")
              /\ signals' = CatchBlock(signals, threw, "check")
              /\ thrownAt' = ThrownAt(thrownAt, threw, "check")
       ELSE /\ pc' = TryPc(FALSE, "fail")
            /\ UNCHANGED <<check, signals, thrownAt>>
    /\ UNCHANGED <<inputs, started, workflowDef, result, summary, issues,
                   processed, annotations, comment, stopCalled>>

\* Lines 134-137: the critical-issue failure signal.
FailIfCritical ==
    /\ pc = "fail"
    /\ signals' = FailOnErrors(signals, inputs.failOnErrors, issues)
    /\ pc' = TryPc(FALSE, "stop")
    /\ UNCHANGED <<inputs, started, workflowDef, result, summary, issues,
                   processed, annotations, comment, check, stopCalled, thrownAt>>

\* Lines 139-140: await orchestrator.stop()
Stop ==
    /\ pc = "stop"
    /\ stopCalled' = TRUE
    /\ \E threw \in BOOLEAN :
         /\ pc' = TryPc(threw, "done")
         /\ signals' = CatchBlock(signals, threw, "stop")
         /\ thrownAt' = ThrownAt(thrownAt, threw, "stop")
    /\ UNCHANGED <<inputs, started, workflowDef, result, summary, issues,
                   processed, annotations, comment, check>>

Next ==
    \/ Start
    \/ Register
    \/ ExecuteWorkflow
    \/ ProcessResults
    \/ CreatePRComment
    \/ CreateCheckRun
    \/ FailIfCritical
    \/ Stop

Spec == Init /\ [][Next]_vars

----------------------------------------------------------------------------
\* Properties

\* The critical issues, counted on the aggregated list by position.
CriticalPositions == { k \in 1..Len(issues) : issues[k].severity = "critical" }
NumCritical == Cardinality(CriticalPositions)

InSeq(x, sq) == \E j \in 1..Len(sq) : sq[j] = x

\* <<t1, k1>> comes before <<t2, k2>> in task order, then in position order.
Precedes(m1, m2) == m1[1] < m2[1] \/ (m1[1] = m2[1] /\ m1[2] < m2[2])

\* C1: when annotations, comment and check run were all published, a
\* "failure" conclusion is caused by some critical issue, and every critical
\* issue is a bullet of the comment's critical section and the message of a
\* "failure"-level annotation.
C1_CrossChannelConsistency ==
    (processed /\ comment.status = "published" /\ check.status = "published"
       /\ check.payload.conclusion = "failure")
    => /\ CriticalPositions # {}
       /\ \A k \in CriticalPositions :
            /\ InSeq(issues[k].message, comment.body.critical)
            /\ \E j \in 1..Len(annotations) :
                 /\ annotations[j].message = issues[k].message
                 /\ annotations[j].annotation_level = "failure"

\* C1 witness: all three channels published a run with a critical issue.
C1_Witness ==
    /\ processed /\ comment.status = "published" /\ check.status = "published"
    /\ check.payload.conclusion = "failure"
    /\ CriticalPositions # {}
    /\ Len(annotations) = Len(issues)

\* C2: a failed comment publish does not stop the check run from being
\* attempted, and with fail-on-errors and a critical issue the run still
\* raises "Found <n> critical issues".
C2_PublishFailureIsolated ==
    pc = "done" =>
      /\ (comment.status = "failed" /\ inputs.createCheckRun) => check.status # "none"
      /\ (processed /\ inputs.failOnErrors /\ NumCritical > 0)
           => InSeq(FoundCritical(NumCritical), signals)

\* C3: a run with fail-on-errors and a critical issue ends with a failure
\* signal, and every enabled channel was handed to its publisher.
C3_FailAfterPublishing ==
    (pc = "done" /\ processed /\ inputs.failOnErrors /\ NumCritical > 0)
    => /\ signals # << >>
       /\ Len(annotations) = Len(issues)
       /\ CommentEnabled => comment.status # "none"
       /\ inputs.createCheckRun => check.status # "none"

\* C4: an outcome without a payload, or without issues or summary, adds no
\* issue and no summary line, and result processing never aborts the run.
C4_FailedTaskDoesNotAbort ==
    /\ thrownAt # "process"
    /\ (result.returned /\ pc \notin {"process"}) => processed
    /\ processed =>
         \A t \in 1..Len(result.results) :
           LET o == result.results[t]
           IN /\ (~o.hasResult \/ o.result.issues = << >>)
                   => ~ \E j \in 1..Len(issues) : issues[j].message[1] = t
              /\ (~o.hasResult \/ o.result.summary = "")
                   => ~ \E j \in 1..Len(summary.lines) : summary.lines[j][1] = o.agentId

\* C5: the comment's three severity groups together hold every issue, and
\* an issue of an unrecognised severity is listed under info.
C5_PartitionLosesNothing ==
    comment.status # "none" =>
      /\ Len(comment.body.critical) + Len(comment.body.warnings)
           + Len(comment.body.info) = Len(issues)
      /\ \A k \in 1..Len(issues) :
           issues[k].severity \notin {"critical", "warning", "info"}
             => InSeq(issues[k].message, comment.body.info)

\* C6: the check run concludes "failure" exactly when there is a critical
\* issue, titled "Found <n> critical issues", else "All checks passed";
\* both depend on the issues only through the number of critical ones.
C6_ConclusionFromCriticalCount ==
    check.status # "none" =>
      /\ check.payload.conclusion = "failure" <=> NumCritical > 0
      /\ check.payload.conclusion \in {"failure", "success"}
      /\ NumCritical > 0
           => check.payload.title = [text |-> "Found critical issues", n |-> NumCritical]
      /\ NumCritical = 0
           => check.payload.title = [text |-> "All checks passed", n |-> 0]

\* C6 witness: a check run rendered for critical and non-critical issues.
C6_Witness ==
    /\ check.status # "none"
    /\ NumCritical > 0
    /\ NumCritical < Len(issues)

\* C6 witness for the passing side: warnings only, conclusion "success".
C6_WitnessSuccess ==
    /\ check.status # "none"
    /\ NumCritical = 0
    /\ Len(issues) > 0

\* C7: the aggregated list holds exactly the issues of the task outcomes,
\* each once, in task order and then in the task's own order, and the
\* annotations follow the list one for one.
C7_OrderPreserved ==
    processed =>
      /\ \A t \in 1..Len(result.results) :
           \A k \in 1..Len(result.results[t].result.issues) :
             InSeq(result.results[t].result.issues[k], issues)
      /\ \A j \in 1..Len(issues) :
           \E t \in 1..Len(result.results) :
             InSeq(issues[j], result.results[t].result.issues)
      /\ \A i, j \in 1..Len(issues) :
           i < j => Precedes(issues[i].message, issues[j].message)
      /\ Len(annotations) = Len(issues)
      /\ \A j \in 1..Len(issues) : annotations[j].message = issues[j].message

\* C7 witness: two tasks contributed one issue each.
C7_Witness ==
    /\ processed
    /\ Len(issues) = 2
    /\ issues[1].message[1] # issues[2].message[1]
    /\ Len(annotations) = 2

\* C7 witness for one task contributing two issues.
C7_WitnessSameTask ==
    /\ processed
    /\ Len(issues) = 2
    /\ issues[1].message[1] = issues[2].message[1]

\* C8: a workflow type outside the four built-in keys resolves to an empty
\* task list, and a run over zero tasks has the summary "Analyzed 0 workflow
\* tasks\n", no issues, a "success" conclusion and no failure signal.
C8_UnknownWorkflowIsNoOp ==
    /\ (workflowDef.resolved /\ inputs.workflowType \notin BuiltinKeys)
         => (workflowDef.hasTasks /\ workflowDef.tasks = << >>)
    /\ (result.returned /\ result.results = << >>) =>
         /\ thrownAt # "process"
         /\ processed => (summary = [count |-> 0, lines |-> << >>] /\ issues = << >>)
         /\ check.status # "none" => check.payload.conclusion = "success"
         /\ signals = << >>

\* A fatal orchestration error: start, registration or execution threw.
Fatal == thrownAt \in {"start", "register", "execute"}

\* After a fatal error nothing was rendered or published and the only
\* failure signal is "Action failed: <the error's message>".
FatalAbortsCleanly ==
    Fatal =>
      /\ ~processed
      /\ annotations = << >>
      /\ comment.status = "none"
      /\ check.status = "none"
      /\ signals = << ActionFailed(thrownAt) >>

\* C9 as stated: a fatal error aborts before rendering and publishing with
\* one "Action failed" signal, and no run raises the signal twice.
C9_SingleFailureSignal ==
    /\ FatalAbortsCleanly
    /\ Len(signals) <= 1

\* C9 amended: a fatal error aborts before rendering and publishing with
\* one "Action failed" signal; a run raises the signal twice only when the
\* critical-issue signal is followed by orchestrator.stop() throwing.
C9_SignalTwiceOnlyOnStop ==
    /\ FatalAbortsCleanly
    /\ Len(signals) <= 2
    /\ Len(signals) = 2 =>
         /\ thrownAt = "stop"
         /\ inputs.failOnErrors
         /\ signals[1] = FoundCritical(NumCritical)
         /\ signals[2] = ActionFailed("stop")

\* C9 witness: workflow execution threw and the run ended.
C9_Witness ==
    /\ pc = "done"
    /\ thrownAt = "execute"
    /\ started
    /\ signals = << ActionFailed("execute") >>

\* C9 witness for the double signal.
C9_WitnessTwice == Len(signals) = 2

\* C10 as stated: a run that started the orchestrator stops it before it
\* ends.
C10_StopAlwaysCalled ==
    (pc = "done" /\ started) => stopCalled

\* C10 amended: a run that started the orchestrator calls stop() before it
\* ends exactly when no earlier step threw.
C10_StopIffNoThrow ==
    (pc = "done" /\ started) => (stopCalled <=> thrownAt \in {"none", "stop"})

\* C10 witness: a started run that ended through stop().
C10_Witness ==
    /\ pc = "done"
    /\ started
    /\ stopCalled
    /\ thrownAt = "none"

\* C10 witness for a started run that ended without stop().
C10_WitnessSkipped ==
    /\ pc = "done"
    /\ started
    /\ ~stopCalled
    /\ thrownAt \in {"execute", "process", "comment", "check"}

====
